---------------------------- MODULE Spec2Model ----------------------------
(***************************************************************************)
(* Model of the asset-preparation scripts of the repository:               *)
(*   create_toycase_video.py  (3x3 labelled video grid, one ffmpeg run)    *)
(*   burn_pose_overlay.py     (pose overlay burnt into each demo video)    *)
(* Durations are counted in whole time units; a Python float is a record   *)
(* [inf, val] so that float('inf') is a value of its own.  str() and the   *)
(* f-string of a float print the same text for the same float, so the two *)
(* places the duration is printed are compared as floats.                  *)
(***************************************************************************)
EXTENDS Integers, Sequences, FiniteSets, TLC

\* ------------------------------------------------------------ constants
CELL_WIDTH == 320
CELL_HEIGHT == 180
COL_LABEL_HEIGHT == 20
ROW_LABEL_WIDTH == 20
\* info.get("format", {}).get("duration", 5)
DEFAULT_DURATION == 5
\* the grid is 3 rows x 3 cols (the literal `videos`, range(9), CELL_WIDTH * 3)
GRID_ROWS == 3
GRID_COLS == 3

\* ------------------------------------------------------------ bounds
\* largest duration ffprobe reports, in time units
MaxDur == 3

VARIABLES
  pc,            \* main: "probe" | "label" | "filter" | "ffmpeg" | "returned" | "raised"
  i,             \* main: index (0-based, row-major) of the next clip to probe
  min_duration,  \* main: the float min_duration
  info,          \* main: what get_video_info returned for the clip probed last
  skipped,       \* history: clips for which get_video_info returned None
  measured,      \* history: durations of the clips get_video_info measured
  label_img,     \* the size of the label image create_label_image was asked for
  filters,       \* the filter graph main built
  cmd,           \* the ffmpeg command line main built
  runs,          \* how many times main has run ffmpeg
  result,        \* the finished ffmpeg process: returncode
  retval,        \* what main returned
  printed_stderr,\* whether main printed result.stderr
  response,      \* what ffprobe answered for the clip probed last
  \* per-cell normalization of one clip ([k:v]scale=...,crop=...)
  cpc, src, scaled, crop,
  \* create_label_image, seen at one pixel of the image
  lpc, px, py, rgba,
  \* the side image, the hstack and the pad
  fpc, left_src, leftimg, stacked, final,
  \* burn_pose_overlay.process_videos
  bpc, video_list, idx, video_file, tmp_file, pose_exists, burn_ok, ffmpeg_calls, outcome

mainVars == <<pc, i, min_duration, info, skipped, measured, label_img, filters,
              cmd, runs, result, retval, printed_stderr, response>>
cellVars == <<cpc, src, scaled, crop>>
labelVars == <<lpc, px, py, rgba>>
finalVars == <<fpc, left_src, leftimg, stacked, final>>
burnVars == <<bpc, video_list, idx, video_file, tmp_file, pose_exists, burn_ok,
              ffmpeg_calls, outcome>>
vars == <<mainVars, cellVars, labelVars, finalVars, burnVars>>
\* what each script leaves alone: the state of the others
notMain == <<cellVars, labelVars, finalVars, burnVars>>
notCell == <<mainVars, labelVars, finalVars, burnVars>>
notLabel == <<mainVars, cellVars, finalVars, burnVars>>
notFinal == <<mainVars, cellVars, labelVars, burnVars>>
notBurn == <<mainVars, cellVars, labelVars, finalVars>>

\* ------------------------------------------------------------ floats
Inf == [inf |-> TRUE, val |-> 0]
Fin(d) == [inf |-> FALSE, val |-> d]

\* a < b on floats
FloatLess(a, b) == IF a.inf THEN FALSE ELSE IF b.inf THEN TRUE ELSE a.val < b.val

PyMinLast(a, b) == b
\* Python's min(a, b): the first argument unless the second is smaller
PyMin(a, b) == IF FloatLess(b, a) THEN b ELSE a

\* ------------------------------------------------------------ get_video_info
\* What ffprobe can answer for one clip: its exit status, whether its standard
\* output is JSON, whether the JSON lists a video stream, and the container
\* duration (0: the format carries no duration).
\* Fields the code never reads for an answer are held fixed.
Response(rc, js, vid, dur) == [returncode |-> rc, json |-> js, video |-> vid, duration |-> dur]
NoDuration == 0
NoResponse == Response(-1, FALSE, FALSE, NoDuration)
ProbeResponses ==
  {Response(1, FALSE, FALSE, NoDuration),
   Response(0, FALSE, FALSE, NoDuration),
   Response(0, TRUE, FALSE, NoDuration)}
  \cup {Response(0, TRUE, TRUE, d) : d \in {NoDuration} \cup (1..MaxDur)}

None == [kind |-> "None", duration |-> 0]
Raised == [kind |-> "raise", duration |-> 0]
Info(d) == [kind |-> "info", duration |-> d]

GetVideoInfoStrict(resp) ==
  IF resp.returncode # 0 THEN Raised
  ELSE IF ~resp.json THEN Raised
  ELSE IF resp.video
       THEN Info(IF resp.duration = NoDuration THEN DEFAULT_DURATION ELSE resp.duration)
       ELSE None
\* get_video_info: None on a non-zero status; json.loads raises on output that is
\* not JSON; the first video stream gives the measurement; None without one.
GetVideoInfo(resp) ==
  IF resp.returncode # 0 THEN None
  ELSE IF ~resp.json THEN Raised
  ELSE IF resp.video
       THEN Info(IF resp.duration = NoDuration THEN DEFAULT_DURATION ELSE resp.duration)
       ELSE None

\* ------------------------------------------------------------ layout
NumClips == GRID_ROWS * GRID_COLS
grid_width == ROW_LABEL_WIDTH + CELL_WIDTH * 3
grid_height == COL_LABEL_HEIGHT + CELL_HEIGHT * 3

\* videos[r][c], rows and columns counted from 0; a clip is named by its place
videos == [r \in 0..(GRID_ROWS - 1) |-> [c \in 0..(GRID_COLS - 1) |-> <<r, c>>]]

\* inputs: "-i" path for each v of each row, in order: input k is videos[k \div 3][k % 3]
InputClip(k) == videos[k \div GRID_COLS][k % GRID_COLS]

OverlayPosSwapped(k) ==
  CASE k = 0 -> [x |-> ROW_LABEL_WIDTH, y |-> COL_LABEL_HEIGHT]
    [] k = 1 -> [x |-> ROW_LABEL_WIDTH, y |-> COL_LABEL_HEIGHT + CELL_HEIGHT]
    [] k = 2 -> [x |-> ROW_LABEL_WIDTH, y |-> COL_LABEL_HEIGHT + CELL_HEIGHT * 2]
    [] k = 3 -> [x |-> ROW_LABEL_WIDTH + CELL_WIDTH, y |-> COL_LABEL_HEIGHT]
    [] k = 4 -> [x |-> ROW_LABEL_WIDTH + CELL_WIDTH, y |-> COL_LABEL_HEIGHT + CELL_HEIGHT]
    [] k = 5 -> [x |-> ROW_LABEL_WIDTH + CELL_WIDTH, y |-> COL_LABEL_HEIGHT + CELL_HEIGHT * 2]
    [] k = 6 -> [x |-> ROW_LABEL_WIDTH + CELL_WIDTH * 2, y |-> COL_LABEL_HEIGHT]
    [] k = 7 -> [x |-> ROW_LABEL_WIDTH + CELL_WIDTH * 2, y |-> COL_LABEL_HEIGHT + CELL_HEIGHT]
    [] k = 8 -> [x |-> ROW_LABEL_WIDTH + CELL_WIDTH * 2, y |-> COL_LABEL_HEIGHT + CELL_HEIGHT * 2]
\* the nine overlay filters, [t(k-1)][v k]overlay=x:y, as written one by one
OverlayPos(k) ==
  CASE k = 0 -> [x |-> ROW_LABEL_WIDTH, y |-> COL_LABEL_HEIGHT]
    [] k = 1 -> [x |-> ROW_LABEL_WIDTH + CELL_WIDTH, y |-> COL_LABEL_HEIGHT]
    [] k = 2 -> [x |-> ROW_LABEL_WIDTH + CELL_WIDTH * 2, y |-> COL_LABEL_HEIGHT]
    [] k = 3 -> [x |-> ROW_LABEL_WIDTH, y |-> COL_LABEL_HEIGHT + CELL_HEIGHT]
    [] k = 4 -> [x |-> ROW_LABEL_WIDTH + CELL_WIDTH, y |-> COL_LABEL_HEIGHT + CELL_HEIGHT]
    [] k = 5 -> [x |-> ROW_LABEL_WIDTH + CELL_WIDTH * 2, y |-> COL_LABEL_HEIGHT + CELL_HEIGHT]
    [] k = 6 -> [x |-> ROW_LABEL_WIDTH, y |-> COL_LABEL_HEIGHT + CELL_HEIGHT * 2]
    [] k = 7 -> [x |-> ROW_LABEL_WIDTH + CELL_WIDTH, y |-> COL_LABEL_HEIGHT + CELL_HEIGHT * 2]
    [] k = 8 -> [x |-> ROW_LABEL_WIDTH + CELL_WIDTH * 2, y |-> COL_LABEL_HEIGHT + CELL_HEIGHT * 2]

\* the per-input filter [k:v]scale=CW:CH:force_original_aspect_ratio=increase,crop=CW:CH
CellFilterDecrease ==
  [scale_w |-> CELL_WIDTH, scale_h |-> CELL_HEIGHT, force_original_aspect_ratio |-> "decrease",
   crop_w |-> CELL_WIDTH, crop_h |-> CELL_HEIGHT]
CellFilter ==
  [scale_w |-> CELL_WIDTH, scale_h |-> CELL_HEIGHT, force_original_aspect_ratio |-> "increase",
   crop_w |-> CELL_WIDTH, crop_h |-> CELL_HEIGHT]

NoImage == [w |-> 0, h |-> 0]
NoFilters == [built |-> FALSE]
NoCmd == [built |-> FALSE]

\* filter_complex: the background, the cells, the nine overlays, the label overlay
BuildFilters(dur) ==
  [built |-> TRUE,
   cell |-> [k \in 0..(NumClips - 1) |-> CellFilter],
   bg |-> [w |-> grid_width, h |-> grid_height, d |-> dur],
   overlay |-> [k \in 0..(NumClips - 1) |-> OverlayPos(k)],
   labels |-> [input |-> 10, x |-> 0, y |-> 0]]

\* ------------------------------------------------------------ main
MainReturnTrue(rc) == "True"
\* if result.returncode != 0: ... return False;  ...  return True
MainReturn(rc) == IF rc # 0 THEN "False" ELSE "True"

MainInit ==
  /\ pc = "probe"
  /\ i = 0
  /\ min_duration = Inf
  /\ info = None
  /\ skipped = {}
  /\ measured = {}
  /\ label_img = NoImage
  /\ filters = NoFilters
  /\ cmd = NoCmd
  /\ runs = 0
  /\ result = 0
  /\ retval = "none"
  /\ printed_stderr = FALSE
  /\ response = NoResponse

\* one turn of "for row in videos: for v in row": probe, then keep the minimum
Probe ==
  /\ pc = "probe"
  /\ i < NumClips
  /\ \E resp \in ProbeResponses :
       LET got == GetVideoInfo(resp) IN
         /\ response' = resp
         /\ info' = got
         /\ IF got.kind = "raise"
            THEN /\ pc' = "raised"
                 /\ UNCHANGED <<i, min_duration, skipped, measured>>
            ELSE /\ i' = i + 1
                 /\ pc' = IF i + 1 = NumClips THEN "label" ELSE "probe"
                 /\ IF got.kind = "info"
                    THEN /\ min_duration' = PyMin(min_duration, Fin(got.duration))
                         /\ measured' = measured \cup {got.duration}
                         /\ UNCHANGED skipped
                    ELSE /\ skipped' = skipped \cup {i}
                         /\ UNCHANGED <<min_duration, measured>>
  /\ UNCHANGED <<label_img, filters, cmd, runs, result, retval, printed_stderr>>
  /\ UNCHANGED notMain

\* Step 2: create_label_image(grid_width, grid_height)
CreateLabel ==
  /\ pc = "label"
  /\ label_img' = [w |-> grid_width, h |-> grid_height]
  /\ pc' = "filter"
  /\ UNCHANGED <<i, min_duration, info, skipped, measured, filters, cmd, runs,
                 result, retval, printed_stderr, response>>
  /\ UNCHANGED notMain

\* Step 3 and the command line of Step 4
BuildCommand ==
  /\ pc = "filter"
  /\ filters' = BuildFilters(min_duration)
  /\ cmd' = [built |-> TRUE, t |-> min_duration]
  /\ pc' = "ffmpeg"
  /\ UNCHANGED <<i, min_duration, info, skipped, measured, label_img, runs,
                 result, retval, printed_stderr, response>>
  /\ UNCHANGED notMain

\* subprocess.run(cmd), then the return on its status
RunFfmpeg ==
  /\ pc = "ffmpeg"
  /\ \E rc \in {0, 1} :
       /\ result' = rc
       /\ printed_stderr' = (rc # 0)
       /\ retval' = MainReturn(rc)
  /\ runs' = runs + 1
  /\ pc' = "returned"
  /\ UNCHANGED <<i, min_duration, info, skipped, measured, label_img, filters, cmd, response>>
  /\ UNCHANGED notMain

MainIdle ==
  /\ pc = "idle" /\ i = 0 /\ min_duration = Inf /\ info = None /\ skipped = {}
  /\ measured = {} /\ label_img = NoImage /\ filters = NoFilters /\ cmd = NoCmd
  /\ runs = 0 /\ result = 0 /\ retval = "none" /\ printed_stderr = FALSE
  /\ response = NoResponse

\* ------------------------------------------------------------ ffmpeg filters
\* The filters the graph names, as ffmpeg's documentation gives them.
Max(a, b) == IF a >= b THEN a ELSE b
Min(a, b) == IF a <= b THEN a ELSE b
Abs(a) == IF a >= 0 THEN a ELSE -a
\* a / b rounded to the nearest whole number (a >= 0, b > 0)
RoundDiv(a, b) == (2 * a + b) \div (2 * b)

\* scale=W:H:force_original_aspect_ratio=...: the size that keeps the input's
\* aspect ratio, enlarged ("increase") or reduced ("decrease") from W x H
FfScale(f, in) ==
  LET tmp_w == RoundDiv(f.scale_h * in.w, in.h)
      tmp_h == RoundDiv(f.scale_w * in.h, in.w)
  IN  IF f.force_original_aspect_ratio = "increase"
      THEN [w |-> Max(tmp_w, f.scale_w), h |-> Max(tmp_h, f.scale_h)]
      ELSE [w |-> Min(tmp_w, f.scale_w), h |-> Min(tmp_h, f.scale_h)]

\* crop=W:H with x and y left to their defaults (in_w-out_w)/2, (in_h-out_h)/2
FfCrop(f, in) ==
  [w |-> f.crop_w, h |-> f.crop_h,
   x |-> (in.w - f.crop_w) \div 2, y |-> (in.h - f.crop_h) \div 2]

\* ------------------------------------------------------------ one cell
\* largest width or height of a source clip tried exhaustively
MaxSrc == 24
\* sizes of common video frames, tried besides
FrameSizes == {180, 240, 320, 360, 480, 640, 720, 832, 1080, 1280, 1920}
SrcSizes == (1..MaxSrc) \cup FrameSizes

CellInit ==
  /\ cpc = "src"
  /\ src \in [w : SrcSizes, h : SrcSizes]
  /\ scaled = NoImage
  /\ crop = [w |-> 0, h |-> 0, x |-> 0, y |-> 0]

ScaleCell ==
  /\ cpc = "src"
  /\ scaled' = FfScale(CellFilter, src)
  /\ cpc' = "scaled"
  /\ UNCHANGED <<src, crop>>
  /\ UNCHANGED notCell

CropCell ==
  /\ cpc = "scaled"
  /\ crop' = FfCrop(CellFilter, scaled)
  /\ cpc' = "cropped"
  /\ UNCHANGED <<src, scaled>>
  /\ UNCHANGED notCell

CellIdle ==
  /\ cpc = "idle" /\ src = NoImage /\ scaled = NoImage
  /\ crop = [w |-> 0, h |-> 0, x |-> 0, y |-> 0]

\* ------------------------------------------------------------ create_label_image
\* ImageDraw.rectangle([x0, y0, x1, y1], fill): the box includes both corner points
InRectangle(xy, x, y) == xy[1] <= x /\ x <= xy[3] /\ xy[2] <= y /\ y <= xy[4]

Transparent == [r |-> 0, g |-> 0, b |-> 0, a |-> 0]
White == [r |-> 255, g |-> 255, b |-> 255, a |-> 255]

\* draw.rectangle([0, 0, grid_width, COL_LABEL_HEIGHT], ...)
TopRectangle(gw, gh) == <<0, 0, gw, COL_LABEL_HEIGHT>>
\* draw.rectangle([0, 0, ROW_LABEL_WIDTH, grid_height], ...)
LeftRectangle(gw, gh) == <<0, 0, ROW_LABEL_WIDTH, gh>>

\* Image.new('RGBA', (grid_width, grid_height), (0, 0, 0, 0)), seen at one pixel.
\* The label texts, whose pixels depend on the font found, are not drawn here: the
\* image is followed up to the two white rectangles.
LabelInit ==
  /\ lpc = "new"
  /\ px \in 0..(grid_width - 1)
  /\ py \in 0..(grid_height - 1)
  /\ rgba = Transparent

DrawTop ==
  /\ lpc = "new"
  /\ rgba' = IF InRectangle(TopRectangle(grid_width, grid_height), px, py) THEN White ELSE rgba
  /\ lpc' = "top"
  /\ UNCHANGED <<px, py>>
  /\ UNCHANGED notLabel

DrawLeft ==
  /\ lpc = "top"
  /\ rgba' = IF InRectangle(LeftRectangle(grid_width, grid_height), px, py) THEN White ELSE rgba
  /\ lpc' = "bands"
  /\ UNCHANGED <<px, py>>
  /\ UNCHANGED notLabel

LabelIdle == lpc = "idle" /\ px = 0 /\ py = 0 /\ rgba = Transparent

\* ------------------------------------------------------------ side image, hstack, pad
\* largest width or height of the side image tried exhaustively
MaxImg == 12
ImgSizes == (1..MaxImg) \cup {600, 800, 1024}

\* scale=-2:H: the height H, the width in proportion, made divisible by 2
FfScaleToHeight(hh, in) == [w |-> RoundDiv(hh * in.w, in.h * 2) * 2, h |-> hh]
\* [9:v]scale=-2:{grid_height}[leftimg]
ScaleLeft(in) == FfScaleToHeight(grid_height, in)

\* hstack=inputs=2: side by side, left input first
Hstack(a, b) == [w |-> a.w + b.w, h |-> a.h]

\* ceil(n/2)
CeilHalf(n) == (n + 1) \div 2
PadSizeNoDouble(in) == [w |-> CeilHalf(in.w), h |-> CeilHalf(in.h)]
\* pad=ceil(iw/2)*2:ceil(ih/2)*2
PadSize(in) == [w |-> CeilHalf(in.w) * 2, h |-> CeilHalf(in.h) * 2]

FinalInit ==
  /\ fpc = "src"
  /\ left_src \in [w : ImgSizes, h : ImgSizes]
  /\ leftimg = NoImage
  /\ stacked = NoImage
  /\ final = NoImage

ScaleLeftImage ==
  /\ fpc = "src"
  /\ leftimg' = ScaleLeft(left_src)
  /\ fpc' = "scaled"
  /\ UNCHANGED <<left_src, stacked, final>>
  /\ UNCHANGED notFinal

StackLeftAndGrid ==
  /\ fpc = "scaled"
  /\ stacked' = Hstack(leftimg, [w |-> grid_width, h |-> grid_height])
  /\ fpc' = "stacked"
  /\ UNCHANGED <<left_src, leftimg, final>>
  /\ UNCHANGED notFinal

PadFinal ==
  /\ fpc = "stacked"
  /\ final' = PadSize(stacked)
  /\ fpc' = "padded"
  /\ UNCHANGED <<left_src, leftimg, stacked>>
  /\ UNCHANGED notFinal

FinalIdle ==
  /\ fpc = "idle" /\ left_src = NoImage /\ leftimg = NoImage
  /\ stacked = NoImage /\ final = NoImage

\* ------------------------------------------------------------ burn_pose_overlay
\* how many entries of a video list are processed
MaxEntries == 3

\* the pose number of each (video_filename, pose_number); an entry's video is
\* named by its place in the list (the file names of a list are all different)
v2v_videos == <<7, 5, 7, 10, 8, 10, 2, 7, 8, 10, 5, 6>>
i2v_videos == <<7, 10, 5, 9, 5, 9, 6, 7, 2, 3>>
Prefix(list) == SubSeq(list, 1, Min(MaxEntries, Len(list)))

Missing == [kind |-> "missing", video |-> 0, pose |-> 0]
Original(k) == [kind |-> "original", video |-> k, pose |-> 0]
Partial(k) == [kind |-> "partial", video |-> k, pose |-> 0]
\* what ffmpeg writes for [main][ovrl]overlay of video k and pose image p
Burned(k, p) == [kind |-> "burned", video |-> k, pose |-> p]

\* burn_overlay returns False on a non-zero status, True otherwise
BurnOverlayReturn(rc) == rc = 0

\* "if burn_overlay(...)": the original is replaced only on True
ShouldMoveAlways(ok) == TRUE
ShouldMove(ok) == ok

BurnInit ==
  /\ bpc = "check"
  /\ idx = 1
  /\ video_list \in {Prefix(v2v_videos), Prefix(i2v_videos)}
  /\ video_file \in {f \in [1..Len(video_list) -> {Missing} \cup {Original(k) : k \in 1..Len(video_list)}] :
                        \A k \in 1..Len(video_list) : f[k] \in {Missing, Original(k)}}
  /\ pose_exists \in SUBSET {video_list[k] : k \in 1..Len(video_list)}
  /\ tmp_file = [k \in 1..Len(video_list) |-> Missing]
  /\ burn_ok = FALSE
  /\ ffmpeg_calls = [k \in 1..Len(video_list) |-> 0]
  /\ outcome = [k \in 1..Len(video_list) |-> "pending"]

\* where the loop goes after an entry: the next entry, or out of the loop
AfterEntry == IF idx = Len(video_list) THEN "done" ELSE "check"

\* "if not os.path.exists(video_path): ... continue"
SkipVideo ==
  /\ bpc = "check"
  /\ video_file[idx] = Missing
  /\ outcome' = [outcome EXCEPT ![idx] = "skip_video"]
  /\ idx' = idx + 1
  /\ bpc' = AfterEntry
  /\ UNCHANGED <<video_list, video_file, tmp_file, pose_exists, burn_ok, ffmpeg_calls>>
  /\ UNCHANGED notBurn

\* "if not os.path.exists(pose_path): ... continue"
SkipPose ==
  /\ bpc = "check"
  /\ video_file[idx] # Missing
  /\ video_list[idx] \notin pose_exists
  /\ outcome' = [outcome EXCEPT ![idx] = "skip_pose"]
  /\ idx' = idx + 1
  /\ bpc' = AfterEntry
  /\ UNCHANGED <<video_list, video_file, tmp_file, pose_exists, burn_ok, ffmpeg_calls>>
  /\ UNCHANGED notBurn

\* burn_overlay(video_path, pose_path, tmp_output): one ffmpeg run, which writes
\* the temporary output; a failed run leaves no file or a partial one
BurnOverlay ==
  /\ bpc = "check"
  /\ video_file[idx] # Missing
  /\ video_list[idx] \in pose_exists
  /\ \E rc \in {0, 1} :
       /\ burn_ok' = BurnOverlayReturn(rc)
       /\ IF rc = 0
          THEN tmp_file' = [tmp_file EXCEPT ![idx] = Burned(idx, video_list[idx])]
          ELSE \E left \in {Missing, Partial(idx)} :
                 tmp_file' = [tmp_file EXCEPT ![idx] = left]
  /\ ffmpeg_calls' = [ffmpeg_calls EXCEPT ![idx] = @ + 1]
  /\ bpc' = "burned"
  /\ UNCHANGED <<video_list, idx, video_file, pose_exists, outcome>>
  /\ UNCHANGED notBurn

\* shutil.move(tmp_output, video_path)
ReplaceOriginal ==
  /\ bpc = "burned"
  /\ ShouldMove(burn_ok)
  /\ video_file' = [video_file EXCEPT ![idx] = tmp_file[idx]]
  /\ tmp_file' = [tmp_file EXCEPT ![idx] = Missing]
  /\ outcome' = [outcome EXCEPT ![idx] = "ok"]
  /\ idx' = idx + 1
  /\ bpc' = AfterEntry
  /\ UNCHANGED <<video_list, pose_exists, burn_ok, ffmpeg_calls>>
  /\ UNCHANGED notBurn

\* the else branch: print FAILED, nothing moved
ReportFailed ==
  /\ bpc = "burned"
  /\ ~ShouldMove(burn_ok)
  /\ outcome' = [outcome EXCEPT ![idx] = "failed"]
  /\ idx' = idx + 1
  /\ bpc' = AfterEntry
  /\ UNCHANGED <<video_list, video_file, tmp_file, pose_exists, burn_ok, ffmpeg_calls>>
  /\ UNCHANGED notBurn

BurnIdle ==
  /\ bpc = "idle" /\ idx = 0 /\ video_list = <<>> /\ video_file = <<>>
  /\ tmp_file = <<>> /\ pose_exists = {} /\ burn_ok = FALSE
  /\ ffmpeg_calls = <<>> /\ outcome = <<>>

\* ------------------------------------------------------------ specifications
\* create_toycase_video.main
Init == MainInit /\ CellIdle /\ LabelIdle /\ FinalIdle /\ BurnIdle
Next == Probe \/ CreateLabel \/ BuildCommand \/ RunFfmpeg
Spec == Init /\ [][Next]_vars

\* the per-cell filter on one clip
InitCell == MainIdle /\ CellInit /\ LabelIdle /\ FinalIdle /\ BurnIdle
NextCell == ScaleCell \/ CropCell
SpecCell == InitCell /\ [][NextCell]_vars

\* create_label_image at one pixel
InitLabel == MainIdle /\ CellIdle /\ LabelInit /\ FinalIdle /\ BurnIdle
NextLabel == DrawTop \/ DrawLeft
SpecLabel == InitLabel /\ [][NextLabel]_vars

\* the side image, the hstack and the pad
InitFinal == MainIdle /\ CellIdle /\ LabelIdle /\ FinalInit /\ BurnIdle
NextFinal == ScaleLeftImage \/ StackLeftAndGrid \/ PadFinal
SpecFinal == InitFinal /\ [][NextFinal]_vars

\* burn_pose_overlay.process_videos
InitBurn == MainIdle /\ CellIdle /\ LabelIdle /\ FinalIdle /\ BurnInit
NextBurn == SkipVideo \/ SkipPose \/ BurnOverlay \/ ReplaceOriginal \/ ReportFailed
SpecBurn == InitBurn /\ [][NextBurn]_vars

\* ------------------------------------------------------------ properties of main
SetMin(S) == CHOOSE m \in S : \A x \in S : m <= x

\* the clip probed last could not be probed: error status, output that is not
\* JSON, or metadata without a video stream
ProbeFailed ==
  /\ response # NoResponse
  /\ (response.returncode # 0 \/ ~response.json \/ ~response.video)

\* C1: whenever at least one probe has succeeded, min_duration is the least of the
\* durations measured so far, whatever the order they came in, and the duration
\* handed to ffmpeg (the white background's d= and the -t cap) is the least of the
\* durations of the clips whose probe succeeded.
C1_DurationIsMinimum ==
  /\ measured # {} => min_duration = Fin(SetMin(measured))
  /\ (cmd.built /\ measured # {}) =>
       /\ cmd.t = Fin(SetMin(measured))
       /\ filters.bg.d = Fin(SetMin(measured))

C1_Witness ==
  /\ cmd.built
  /\ Cardinality(measured) >= 3
  /\ skipped # {}
  /\ info.kind = "info"
  /\ info.duration # SetMin(measured)

\* C2: a probe failure never aborts the run: a clip whose probe returns an error
\* status, output that cannot be parsed or metadata without a video stream yields
\* no measurement (None), and main is not stopped by it.
C2_ProbeFailureNeverAborts ==
  ProbeFailed => (info = None /\ pc # "raised")

C4_ReturnFollowsStatus ==
  /\ runs <= 1
  /\ pc = "returned" =>
       /\ runs = 1
       /\ result # 0 => (retval = "False" /\ printed_stderr)
       /\ result = 0 => (retval = "True" /\ ~printed_stderr)
  /\ pc # "returned" => (retval = "none" /\ runs = 0)

C4_Witness == pc = "returned" /\ result # 0 /\ retval = "False"

Rows == 0..(GRID_ROWS - 1)
Cols == 0..(GRID_COLS - 1)
\* the pixels a cell covers: the crop's size, placed at the overlay's offset
CellBox(k) ==
  [x0 |-> filters.overlay[k].x, y0 |-> filters.overlay[k].y,
   x1 |-> filters.overlay[k].x + filters.cell[k].crop_w,
   y1 |-> filters.overlay[k].y + filters.cell[k].crop_h]
Disjoint(a, b) == a.x1 <= b.x0 \/ b.x1 <= a.x0 \/ a.y1 <= b.y0 \/ b.y1 <= a.y0

\* C6: for every row r and column c, the clip videos[r][c] is input 3*r + c and is
\* overlaid at (rowLabelWidth + cw*c, colLabelHeight + ch*r) on a white canvas whose
\* size, like the label image's, is (rowLabelWidth + cw*C, colLabelHeight + ch*R),
\* which is 980 x 560; the nine cells are pairwise disjoint and inside the canvas.
C6_CompositingPlan ==
  filters.built =>
    /\ \A r \in Rows : \A c \in Cols :
         /\ InputClip(3 * r + c) = videos[r][c]
         /\ filters.overlay[3 * r + c] =
              [x |-> ROW_LABEL_WIDTH + CELL_WIDTH * c, y |-> COL_LABEL_HEIGHT + CELL_HEIGHT * r]
    /\ filters.bg.w = ROW_LABEL_WIDTH + CELL_WIDTH * GRID_COLS
    /\ filters.bg.h = COL_LABEL_HEIGHT + CELL_HEIGHT * GRID_ROWS
    /\ filters.bg.w = 980 /\ filters.bg.h = 560
    /\ label_img = [w |-> filters.bg.w, h |-> filters.bg.h]
    /\ \A k \in 0..(NumClips - 1) :
         /\ 0 <= CellBox(k).x0 /\ CellBox(k).x1 <= filters.bg.w
         /\ 0 <= CellBox(k).y0 /\ CellBox(k).y1 <= filters.bg.h
    /\ \A k \in 0..(NumClips - 1) : \A m \in 0..(NumClips - 1) :
         k # m => Disjoint(CellBox(k), CellBox(m))

C6_Witness == filters.built /\ pc = "ffmpeg" /\ label_img # NoImage

\* C9: in every run that reaches the ffmpeg command, the duration passed to it is a
\* finite positive number, the probed duration of one of the grid clips; with no
\* clip probed, ffmpeg is not given an infinite duration.
C9_DurationIsFinite ==
  cmd.built =>
    /\ ~cmd.t.inf /\ cmd.t.val > 0 /\ cmd.t.val \in measured
    /\ ~filters.bg.d.inf /\ filters.bg.d.val \in measured

\* ------------------------------------------------------------ properties of a cell
\* the scaled size keeps the source's aspect ratio to the nearest whole pixel: one
\* side is the target and the other is the exact proportional size, rounded
AspectKept ==
  \/ scaled.w = CELL_WIDTH /\ 2 * Abs(scaled.h * src.w - CELL_WIDTH * src.h) <= src.w
  \/ scaled.h = CELL_HEIGHT /\ 2 * Abs(scaled.w * src.h - CELL_HEIGHT * src.w) <= src.h

InVideoCell == px >= ROW_LABEL_WIDTH /\ py >= COL_LABEL_HEIGHT

\* C7: the label image is opaque white only inside a horizontal band of height
\* exactly colLabelHeight (pixel rows 0..colLabelHeight-1) and a vertical band of
\* width exactly rowLabelWidth (pixel columns 0..rowLabelWidth-1), and is fully
\* transparent at every pixel of a video cell.
C7_BandsOnly ==
  lpc = "bands" =>
    /\ rgba = White <=> (py < COL_LABEL_HEIGHT \/ px < ROW_LABEL_WIDTH)
    /\ InVideoCell => rgba.a = 0

\* ------------------------------------------------------------ properties of the final frame
\* C8: the final frame has even width and even height, final_w = ceil(raw_w / 2) * 2
\* and final_h = ceil(raw_h / 2) * 2, where raw is the side image, scaled to the grid
\* canvas's height, concatenated to the left of the labelled grid; the final size is
\* never smaller than the raw size and exceeds it by at most 1 in each dimension.
C8_EvenFinalSize ==
  /\ fpc \in {"stacked", "padded"} =>
       /\ leftimg.h = grid_height
       /\ stacked = [w |-> leftimg.w + grid_width, h |-> grid_height]
  /\ fpc = "padded" =>
       /\ final.w % 2 = 0 /\ final.h % 2 = 0
       /\ final.w = ((stacked.w + 1) \div 2) * 2
       /\ final.h = ((stacked.h + 1) \div 2) * 2
       /\ final.w >= stacked.w /\ final.w - stacked.w <= 1
       /\ final.h >= stacked.h /\ final.h - stacked.h <= 1

C8_Witness ==
  /\ fpc = "padded"
  /\ left_src.w # left_src.h
  /\ leftimg.w > 0
  /\ final.w = leftimg.w + grid_width
  /\ final.h = grid_height

\* ------------------------------------------------------------ properties of process_videos
Entries == 1..Len(video_list)

\* C10: for every (video, pose) entry: the original video file is replaced only
\* after burn_overlay for that entry has returned success, and then by exactly that
\* entry's temporary output; when the video is missing, the pose image is missing or
\* ffmpeg exits non-zero, the original is left as it was; ffmpeg is run at most once
\* for an entry, and the loop goes on to the next entry whatever the outcome.
C10_ReplaceOnlyOnSuccess ==
  \A k \in Entries :
    /\ ffmpeg_calls[k] <= 1
    /\ video_file[k] \notin {Missing, Original(k)} =>
         /\ outcome[k] = "ok"
         /\ ffmpeg_calls[k] = 1
         /\ video_file[k] = Burned(k, video_list[k])
    /\ outcome[k] = "ok" => video_file[k] = Burned(k, video_list[k])
    /\ outcome[k] = "skip_video" => (video_file[k] = Missing /\ ffmpeg_calls[k] = 0)
    /\ outcome[k] = "skip_pose" => (video_file[k] = Original(k) /\ ffmpeg_calls[k] = 0)
    /\ outcome[k] = "failed" => (video_file[k] = Original(k) /\ ffmpeg_calls[k] = 1)
    /\ (bpc = "burned" /\ k = idx) => video_file[k] = Original(k)
    /\ k < idx => outcome[k] # "pending"
    /\ k > idx => (outcome[k] = "pending" /\ ffmpeg_calls[k] = 0)
    /\ bpc = "done" => outcome[k] # "pending"
    /\ bpc # "done" => ENABLED NextBurn

C10_Witness ==
  /\ bpc = "done"
  /\ \E k \in Entries : outcome[k] = "failed"
  /\ \E k \in Entries : outcome[k] = "ok" /\ video_file[k] = Burned(k, video_list[k])
  /\ \E k \in Entries : outcome[k] \in {"skip_video", "skip_pose"}
=============================================================================
